---- MODULE Spec2Model ----
(***************************************************************************)
(* A model of stream.py: a scheduler that records network streams during   *)
(* time windows.  main() loads the configuration, builds the windows       *)
(* (create_schedules_from_template or import_schedules), crosses them with *)
(* the stream list (initialize_records) and then polls: every iteration    *)
(* takes one snapshot of the clock, starts the pending records whose       *)
(* window contains it, stops the handled records whose window has ended,   *)
(* and sleeps.                                                             *)
(*                                                                         *)
(* Time is an integer number of seconds since midnight of the current day. *)
(* A time of day of the configuration ("HH:MM:SS") is the record           *)
(* [h, m, s] of its three fields, which strptime turns into seconds.       *)
(* A dict is the sequence of its entries in insertion order, each entry    *)
(* carrying its key in the field id.                                       *)
(***************************************************************************)
EXTENDS Integers, Sequences, FiniteSets, TLC

VARIABLES
    args_template,     \* args["template"]: the -t flag
    stream_list,       \* data["stream_list"]
    schedule_dict,     \* data["schedule_dict"]
    schedule_template, \* data["schedule_template"]
    clock,             \* the wall clock, what datetime.now() returns
    pc,                \* where main is
    schedules,         \* main's local schedules
    records,           \* main's dict records (pending)
    handling_records,  \* main's dict handling_records (recording)
    now,               \* the iteration's snapshot
    rs,                \* what is left of list(records) in the first for loop
    hrs,               \* what is left of list(handling_records) in the second
    vlc,               \* the engine's objects, by the record they were made for
    start_calls,       \* history: calls of start_record, by record id
    stop_calls,        \* history: calls of stop_record, by record id
    created,           \* history: the ids initialize_records returned
    finished,          \* history: the ids popped from handling_records
    failed,            \* history: the ids whose start raised
    started_at,        \* history: the snapshot a record was started at, by id
    stopped_at,        \* history: the snapshot a record was stopped at, by id
    first_now,         \* history: the first snapshot of the loop
    files,             \* the names in the directory save_path
    named              \* history: the calls of generate_outfile made on its own

vars == <<args_template, stream_list, schedule_dict, schedule_template, clock,
          pc, schedules, records, handling_records, now, rs, hrs, vlc,
          start_calls, stop_calls, created, finished, failed, started_at,
          stopped_at, first_now, files, named>>

config == <<args_template, stream_list, schedule_dict, schedule_template>>
history == <<start_calls, stop_calls, created, finished, failed>>
times == <<started_at, stopped_at, first_now>>
disk == <<files, named>>

(***************************************************************************)
(* Bounds of the model and constants of the program.                       *)
(***************************************************************************)
MaxStreams == 2     \* longest stream_list
MaxWindows == 2     \* longest schedule_dict
MaxJobs == 4        \* most records (streams times windows) of an explicit configuration
MaxDuration == 1    \* largest template duration and break, in minutes
MaxClock == 150     \* the clock is not followed beyond this second
MaxStartupMinutes == 3  \* largest duration and break of the startup's templates
MaxCalls == 2       \* most calls of generate_outfile made on its own
MaxNamerClock == 1  \* last second of the clock in those calls
SleepTime == 30     \* time.sleep(30)

HalfPeriod == SleepTime \div 2

\* time.sleep returns after at least SleepTime; the overshoot is one of these.
Delays == {0, HalfPeriod}

\* The time that passes between building the schedules and the first snapshot.
StartupDelays == {0, HalfPeriod}

\* The clock when main starts.
StartClocks == {0, HalfPeriod, 3 * HalfPeriod}

HMS(h, m, s) == [h |-> h, m |-> m, s |-> s]

\* The times of day the configurations of the poll loop are drawn from.
TimesOfDay == {HMS(0, 0, 0), HMS(0, 0, 30), HMS(0, 1, 0), HMS(0, 1, 30)}

Digits == <<"0", "1", "2", "3", "4", "5", "6", "7", "8", "9">>

\* "{}".format(n) for a number n >= 0
RECURSIVE str(_)
str(n) ==
    IF n < 10 THEN <<Digits[n + 1]>> ELSE str(n \div 10) \o <<Digits[(n % 10) + 1]>>

\* Camera k is called "c k".
Stream(k) == [uri |-> k, name |-> <<"c", " ">> \o str(k)]

\* stream_list is a prefix of camera 1, camera 2, ...
StreamLists == {[i \in 1..n |-> Stream(i)] : n \in 0..MaxStreams}

SeqsUpTo(S, n) == UNION {[1..k -> S] : k \in 0..n}

\* The configured pairs: every pair whose start is before its end, and of the
\* others (empty or inverted, which import_schedules takes as well) those
\* that start at 00:00:30.
Pairs ==
    {p \in [start : TimesOfDay, end : TimesOfDay] :
        \/ p.start.h * 3600 + p.start.m * 60 + p.start.s
              < p.end.h * 3600 + p.end.m * 60 + p.end.s
        \/ p.start = HMS(0, 0, 30)}

Templates ==
    [start : TimesOfDay, end : TimesOfDay,
     duration : 0..MaxDuration, break : 0..MaxDuration]

NoTemplate == [start |-> HMS(0, 0, 0), end |-> HMS(0, 0, 0), duration |-> 0, break |-> 0]

\* The configurations main's startup alone is run on: longer days, and
\* durations and breaks that may be zero or negative.
StartupTimesOfDay ==
    {HMS(0, 0, 0), HMS(0, 0, 30), HMS(0, 2, 0), HMS(0, 5, 0), HMS(0, 7, 30)}

StartupClocks == {0, 45, 120, 200, 301, 500}

StartupTemplates ==
    [start : StartupTimesOfDay, end : StartupTimesOfDay,
     duration : (-1)..MaxStartupMinutes, break : (-1)..MaxStartupMinutes]

\* The template of the documentation's example, read at 10:00:00.
Scenario ==
    [template |-> [start |-> HMS(0, 0, 0), end |-> HMS(23, 59, 59),
                   duration |-> 60, break |-> 0],
     clock |-> 36000]

NoHandle ==
    [instance |-> "none", player |-> "none", media |-> "none",
     sout |-> <<>>, calls |-> <<>>]

(***************************************************************************)
(* Dicts.                                                                  *)
(***************************************************************************)
Range(s) == {s[i] : i \in 1..Len(s)}

\* list(d): the keys in insertion order
Keys(d) == [i \in 1..Len(d) |-> d[i].id]

KeySet(d) == {d[i].id : i \in 1..Len(d)}

\* d[k]
Get(d, k) == d[CHOOSE i \in 1..Len(d) : d[i].id = k]

\* d[k] = e: in place when the key is there, at the end when it is not
Put(d, e) ==
    IF e.id \in KeySet(d)
    THEN [i \in 1..Len(d) |-> IF d[i].id = e.id THEN e ELSE d[i]]
    ELSE Append(d, e)

\* d.pop(k)
Pop(d, k) == SelectSeq(d, LAMBDA e : e.id # k)

(***************************************************************************)
(* The schedule generator.                                                 *)
(***************************************************************************)
\* datetime.strptime(t, "%H:%M:%S").replace(year, month, day of today)
strptime(t) == t.h * 3600 + t.m * 60 + t.s

\* timedelta(minutes=n)
timedelta(n) == n * 60

\* class Schedule
Schedule(start, end) == [start |-> start, end |-> end]

\* import_schedules: one Schedule per configured pair, as configured
import_schedules(dict) ==
    [i \in 1..Len(dict) |->
        Schedule(strptime(dict[i].start), strptime(dict[i].end))]

\* A clipping that was left out: the template's start is kept as it is.
ClipStartKept(start_time, t) == start_time

\* if start_time < now: start_time = now
ClipStart(start_time, t) == IF start_time < t THEN t ELSE start_time

\* A loop that lets the window run through the break.
RECURSIVE TemplateLoopThroughBreak(_, _, _, _, _)
TemplateLoopThroughBreak(start_time, end_time, duration, break_time, acc) ==
    IF start_time < end_time
    THEN TemplateLoopThroughBreak(
            start_time + duration + break_time, end_time, duration, break_time,
            Append(acc, Schedule(start_time, start_time + duration + break_time)))
    ELSE acc

\* while start_time < end_time: emit [start_time, start_time + duration),
\* then move start_time past the window and the break
RECURSIVE TemplateLoop(_, _, _, _, _)
TemplateLoop(start_time, end_time, duration, break_time, acc) ==
    IF start_time < end_time
    THEN TemplateLoop(
            start_time + duration + break_time, end_time, duration, break_time,
            Append(acc, Schedule(start_time, start_time + duration)))
    ELSE acc

\* The while loop of create_schedules_from_template never ends: start_time
\* is below end_time and does not grow.
TemplateDiverges(template, t) ==
    /\ ClipStart(strptime(template.start), t) < strptime(template.end)
    /\ timedelta(template.duration) + timedelta(template.break) <= 0

\* create_schedules_from_template, called when the clock shows t
create_schedules_from_template(template, t) ==
    TemplateLoop(ClipStart(strptime(template.start), t),
                 strptime(template.end),
                 timedelta(template.duration),
                 timedelta(template.break),
                 <<>>)

(***************************************************************************)
(* The job initializer.                                                    *)
(***************************************************************************)
\* records[pid] = {"uri": ..., "name": ..., "start": ..., "end": ...}
Record(pid, stream, schedule) ==
    [id |-> pid, uri |-> stream.uri, name |-> stream.name,
     start |-> schedule.start, end |-> schedule.end]

\* for stream in stream_list: pid += 1; records[pid] = {...}
RECURSIVE StreamLoop(_, _, _, _)
StreamLoop(streams, schedule, pid, recs) ==
    IF streams = <<>>
    THEN [pid |-> pid, records |-> recs]
    ELSE StreamLoop(Tail(streams), schedule, pid + 1,
                    Put(recs, Record(pid + 1, Head(streams), schedule)))

\* for schedule in schedules: the inner loop
RECURSIVE ScheduleLoop(_, _, _, _)
ScheduleLoop(scheds, streams, pid, recs) ==
    IF scheds = <<>>
    THEN recs
    ELSE LET inner == StreamLoop(streams, Head(scheds), pid, recs)
         IN  ScheduleLoop(Tail(scheds), streams, inner.pid, inner.records)

\* A counter that starts at 0 instead of -1: the ids are 1..N.
initialize_records_from_one(streams, scheds) ==
    ScheduleLoop(scheds, streams, 0, <<>>)

\* The two loops swapped: all records of one stream before those of the next.
initialize_records_stream_major(streams, scheds) ==
    [k \in 1..(Len(streams) * Len(scheds)) |->
        Record(k - 1, streams[((k - 1) \div Len(scheds)) + 1],
                      scheds[((k - 1) % Len(scheds)) + 1])]

\* initialize_records
initialize_records(streams, scheds) ==
    ScheduleLoop(scheds, streams, -1, <<>>)

(***************************************************************************)
(* The output namer.  A text is the sequence of its characters; the date   *)
(* of the day and the extension are one character each, and the path is    *)
(* the file name, save_path being the same for all.                        *)
(***************************************************************************)
\* %H, %M, %S: two digits
TwoDigits(n) == <<Digits[(n \div 10) + 1], Digits[(n % 10) + 1]>>

\* timestamp.strftime('%Y%m%d_%H%M%S') for the second t of the day
strftime(t) ==
    <<"YYYYMMDD", "_">> \o TwoDigits((t \div 3600) % 24)
        \o TwoDigits((t \div 60) % 60) \o TwoDigits(t % 60)

\* stream_name.replace(' ', '_')
replace(name) == [i \in 1..Len(name) |-> IF name[i] = " " THEN "_" ELSE name[i]]

\* ext = ".ts"
ext == <<".ts">>

\* x.endswith(e)
endswith(x, e) ==
    /\ Len(x) >= Len(e)
    /\ SubSeq(x, Len(x) - Len(e) + 1, Len(x)) = e

\* "_".join(fn)
fn_str(stream_name, t) == strftime(t) \o <<"_">> \o replace(stream_name)

\* "{}_{}{}".format(fn_str, n, ext)
Numbered(fn, n) == fn \o <<"_">> \o str(n) \o ext

\* A test made once where the code loops: the first numbered name is taken
\* without looking whether it is there.
NameLoopOnce(name, n, fn, d) == IF name \in d THEN Numbered(fn, n) ELSE name

\* while name in d: name = "{}_{}{}".format(fn_str, n, ext); n += 1
RECURSIVE NameLoop(_, _, _, _)
NameLoop(name, n, fn, d) ==
    IF name \in d THEN NameLoop(Numbered(fn, n), n + 1, fn, d) ELSE name

\* generate_outfile, called at the second t with listing = os.listdir(save_path)
generate_outfile(stream_name, listing, t) ==
    LET d == {x \in listing : endswith(x, ext)}
        fn == fn_str(stream_name, t)
    IN  NameLoop(fn \o ext, 0, fn, d)

\* os.path.join(save_path, "stream.log")
log_file == <<"stream.log">>

\* print_log: the line is appended to the log, which is made when missing
print_log(listing) == listing \cup {log_file}

(***************************************************************************)
(* The recorder adapter.  The engine's objects are "none" before they are  *)
(* made, then "live" ("playing" for a player that plays, "stopped" after   *)
(* stop) and "released" after release.  sout is the file the instance was  *)
(* told to write, calls the calls made on the objects after they were made. *)
(***************************************************************************)
\* start_record: instance, media and player are made and the player plays
start_record(uri, outfile) ==
    [instance |-> "live", player |-> "playing", media |-> "live",
     sout |-> outfile, calls |-> <<>>]

\* obj.stop() or obj.release()
Call(handle, obj, op) ==
    [handle EXCEPT ![obj] = IF op = "stop" THEN "stopped" ELSE "released",
                   !.calls = Append(@, <<obj, op>>)]

\* stop_record: player.stop(); player.release(); instance.release()
stop_record(handle) ==
    Call(Call(Call(handle, "player", "stop"), "player", "release"),
         "instance", "release")

(***************************************************************************)
(* The poll loop's tests.                                                  *)
(***************************************************************************)
\* A start test that takes the start of the window in.
StartDueFromStart(data, t) == data["start"] <= t /\ t < data["end"]

\* if data["start"] < now < data["end"]
StartDue(data, t) == data["start"] < t /\ t < data["end"]

\* A stop test that lets a record run one sleep longer.
StopDueLate(data, t) == t > data["end"] + SleepTime

\* A stop test that takes the end of the window in.
StopDueAtEnd(data, t) == t >= data["end"]

\* A stop test that looks at the start of the window.
StopDueOnceStarted(data, t) == t > data["start"]

\* if now > data["end"]
StopDue(data, t) == t > data["end"]

\* A pop that removes nothing.
PopNothing(d, k) == d

\* records.pop(r)
records_pop(d, k) == Pop(d, k)

\* A pop that removes nothing.
PopForgotten(d, k) == d

\* handling_records.pop(hr)
handling_records_pop(d, k) == Pop(d, k)

\* data["instance"] = instance; data["player"] = player; data["media"] = media:
\* the record refers to the engine objects made for it
Attach(data, ref) ==
    [id |-> data.id, uri |-> data.uri, name |-> data.name,
     start |-> data["start"], end |-> data["end"],
     instance |-> ref, player |-> ref, media |-> ref]

(***************************************************************************)
(* main, from the loaded configuration on.                                 *)
(***************************************************************************)
Init ==
    /\ args_template \in BOOLEAN
    /\ stream_list \in StreamLists
    /\ IF args_template
       THEN schedule_dict = <<>> /\ schedule_template \in Templates
       ELSE schedule_dict \in SeqsUpTo(Pairs, MaxWindows)
            /\ Len(stream_list) * Len(schedule_dict) <= MaxJobs
            /\ schedule_template = NoTemplate
    /\ clock \in StartClocks
    /\ pc = "start"
    /\ schedules = <<>>
    /\ records = <<>>
    /\ handling_records = <<>>
    /\ now = 0
    /\ rs = <<>>
    /\ hrs = <<>>
    /\ vlc = <<>>
    /\ start_calls = <<>>
    /\ stop_calls = <<>>
    /\ created = {}
    /\ finished = {}
    /\ failed = {}
    /\ started_at = <<>>
    /\ stopped_at = <<>>
    /\ first_now = -1
    /\ files = {}
    /\ named = <<>>

\* schedules = import_schedules(schedule_dict)
ImportSchedules ==
    /\ pc = "start"
    /\ ~args_template
    /\ schedules' = import_schedules(schedule_dict)
    /\ pc' = "scheduled"
    /\ UNCHANGED <<config, clock, records, handling_records, now, rs, hrs, vlc,
                   history,
                   times, disk>>

\* schedules = create_schedules_from_template(schedule_template)
TemplateSchedules ==
    /\ pc = "start"
    /\ args_template
    /\ ~TemplateDiverges(schedule_template, clock)
    /\ schedules' = create_schedules_from_template(schedule_template, clock)
    /\ pc' = "scheduled"
    /\ UNCHANGED <<config, clock, records, handling_records, now, rs, hrs, vlc,
                   history,
                   times, disk>>

\* create_schedules_from_template does not return
TemplateHangs ==
    /\ pc = "start"
    /\ args_template
    /\ TemplateDiverges(schedule_template, clock)
    /\ pc' = "hang"
    /\ UNCHANGED <<config, clock, schedules, records, handling_records, now, rs,
                   hrs, vlc, history,
                   times, disk>>

\* records = initialize_records(stream_list, schedules)
InitializeRecords ==
    /\ pc = "scheduled"
    /\ records' = initialize_records(stream_list, schedules)
    /\ created' = KeySet(records')
    /\ vlc' = [k \in created' |-> NoHandle]
    /\ start_calls' = [k \in created' |-> 0]
    /\ stop_calls' = [k \in created' |-> 0]
    /\ started_at' = [k \in created' |-> -1]
    /\ stopped_at' = [k \in created' |-> -1]
    /\ pc' = "initialized"
    /\ UNCHANGED <<config, clock, schedules, handling_records, now, rs, hrs,
                   finished, failed, first_now, disk>>

\* handling_records = {}, and the loop is reached some time after the
\* schedules were built
EnterLoop ==
    /\ pc = "initialized"
    /\ handling_records' = <<>>
    /\ \E d \in StartupDelays : clock' = clock + d
    /\ pc' = "loop"
    /\ UNCHANGED <<config, schedules, records, now, rs, hrs, vlc, history,
                   times, disk>>

\* while len(records) > 0 or len(handling_records) > 0: true;
\* now = datetime.now(); rs = list(records)
EnterIteration ==
    /\ pc = "loop"
    /\ Len(records) > 0 \/ Len(handling_records) > 0
    /\ now' = clock
    /\ first_now' = IF first_now = -1 THEN clock ELSE first_now
    /\ rs' = Keys(records)
    /\ pc' = "starting"
    /\ UNCHANGED <<config, clock, schedules, records, handling_records, hrs, vlc,
                   history, started_at, stopped_at, disk>>

\* the while test is false: main returns
Return ==
    /\ pc = "loop"
    /\ ~(Len(records) > 0 \/ Len(handling_records) > 0)
    /\ pc' = "done"
    /\ UNCHANGED <<config, clock, schedules, records, handling_records, now, rs,
                   hrs, vlc, history,
                   times, disk>>

\* for r in rs: the test is false
StartSkip ==
    /\ pc = "starting"
    /\ rs # <<>>
    /\ ~StartDue(Get(records, Head(rs)), now)
    /\ rs' = Tail(rs)
    /\ UNCHANGED <<config, clock, pc, schedules, records, handling_records, now,
                   hrs, vlc, history,
                   times, disk>>

\* for r in rs: the test is true and the record is started and moved
StartRecord ==
    /\ pc = "starting"
    /\ rs # <<>>
    /\ LET r == Head(rs)
           data == Get(records, r)
       IN  /\ StartDue(data, now)
           /\ files' = print_log(files)
           /\ start_calls' = [start_calls EXCEPT ![r] = @ + 1]
           /\ vlc' = [vlc EXCEPT ![r] =
                         start_record(data.uri,
                                      generate_outfile(data.name, files', clock))]
           /\ started_at' = [started_at EXCEPT ![r] = now]
           /\ handling_records' = Put(handling_records, Attach(data, r))
           /\ records' = records_pop(records, r)
    /\ rs' = Tail(rs)
    /\ UNCHANGED <<config, clock, pc, schedules, now, hrs, stop_calls, created,
                   finished, failed, stopped_at, first_now, named>>

\* for r in rs: the test is true and print_log raises (the log cannot be
\* written) or generate_outfile does (the directory cannot be listed):
\* nothing catches it
StartRaisesBeforeRecord ==
    /\ pc = "starting"
    /\ rs # <<>>
    /\ StartDue(Get(records, Head(rs)), now)
    /\ \/ files' = files
       \/ files' = print_log(files)
    /\ failed' = failed \cup {Head(rs)}
    /\ pc' = "crashed"
    /\ UNCHANGED <<config, clock, schedules, records, handling_records, now, rs,
                   hrs, vlc, start_calls, stop_calls, created, finished,
                   times, named>>

\* for r in rs: the test is true and start_record raises (the engine cannot
\* be made): nothing catches it
StartRecordRaises ==
    /\ pc = "starting"
    /\ rs # <<>>
    /\ StartDue(Get(records, Head(rs)), now)
    /\ files' = print_log(files)
    /\ start_calls' = [start_calls EXCEPT ![Head(rs)] = @ + 1]
    /\ failed' = failed \cup {Head(rs)}
    /\ pc' = "crashed"
    /\ UNCHANGED <<config, clock, schedules, records, handling_records, now, rs,
                   hrs, vlc, stop_calls, created, finished,
                   times, named>>

\* the first for loop is over: hrs = list(handling_records)
EndStarts ==
    /\ pc = "starting"
    /\ rs = <<>>
    /\ hrs' = Keys(handling_records)
    /\ pc' = "stopping"
    /\ UNCHANGED <<config, clock, schedules, records, handling_records, now, rs,
                   vlc, history,
                   times, disk>>

\* for hr in hrs: the test is false
StopSkip ==
    /\ pc = "stopping"
    /\ hrs # <<>>
    /\ ~StopDue(Get(handling_records, Head(hrs)), now)
    /\ hrs' = Tail(hrs)
    /\ UNCHANGED <<config, clock, pc, schedules, records, handling_records, now,
                   rs, vlc, history,
                   times, disk>>

\* for hr in hrs: the test is true and the record is stopped and dropped
StopRecord ==
    /\ pc = "stopping"
    /\ hrs # <<>>
    /\ LET hr == Head(hrs)
           data == Get(handling_records, hr)
       IN  /\ StopDue(data, now)
           /\ files' = print_log(files)
           /\ stop_calls' = [stop_calls EXCEPT ![hr] = @ + 1]
           /\ vlc' = [vlc EXCEPT ![data.player] = stop_record(@)]
           /\ stopped_at' = [stopped_at EXCEPT ![hr] = now]
           /\ handling_records' = handling_records_pop(handling_records, hr)
           /\ finished' = finished \cup {hr}
    /\ hrs' = Tail(hrs)
    /\ UNCHANGED <<config, clock, pc, schedules, records, now, rs, start_calls,
                   created, failed, started_at, first_now, named>>

\* for hr in hrs: the test is true and print_log raises (the log cannot be
\* written, with or without the log file having been made): nothing catches
\* it, stop_record is not called and the record stays in handling_records
StopRaisesBeforeRecord ==
    /\ pc = "stopping"
    /\ hrs # <<>>
    /\ StopDue(Get(handling_records, Head(hrs)), now)
    /\ \/ files' = files
       \/ files' = print_log(files)
    /\ pc' = "crashed"
    /\ UNCHANGED <<config, clock, schedules, records, handling_records, now, rs,
                   hrs, vlc, history, times, named>>

\* for hr in hrs: the test is true and stop_record raises, before or after
\* one of its calls: nothing catches it and the record is not popped
StopRecordRaises ==
    /\ pc = "stopping"
    /\ hrs # <<>>
    /\ LET hr == Head(hrs)
           data == Get(handling_records, hr)
       IN  /\ StopDue(data, now)
           /\ files' = print_log(files)
           /\ stop_calls' = [stop_calls EXCEPT ![hr] = @ + 1]
           /\ stopped_at' = [stopped_at EXCEPT ![hr] = now]
           /\ \E h \in {vlc[data.player],
                         Call(vlc[data.player], "player", "stop"),
                         Call(Call(vlc[data.player], "player", "stop"),
                              "player", "release")} :
                 vlc' = [vlc EXCEPT ![data.player] = h]
    /\ pc' = "crashed"
    /\ UNCHANGED <<config, clock, schedules, records, handling_records, now, rs,
                   hrs, start_calls, created, finished, failed, started_at,
                   first_now, named>>

\* the second for loop is over
EndStops ==
    /\ pc = "stopping"
    /\ hrs = <<>>
    /\ pc' = "sleep"
    /\ UNCHANGED <<config, clock, schedules, records, handling_records, now, rs,
                   hrs, vlc, history,
                   times, disk>>

\* time.sleep(30)
Sleep ==
    /\ pc = "sleep"
    /\ \E d \in Delays :
          /\ clock + SleepTime + d <= MaxClock
          /\ clock' = clock + SleepTime + d
    /\ pc' = "loop"
    /\ UNCHANGED <<config, schedules, records, handling_records, now, rs, hrs,
                   vlc, history,
                   times, disk>>

\* The engine, on its own thread, makes the file a playing instance was told
\* to write, at any time after play() while the process runs.
EngineOpensFile ==
    /\ pc \in {"loop", "starting", "stopping", "sleep"}
    /\ \E k \in created :
          /\ vlc[k].player = "playing"
          /\ vlc[k].sout \notin files
          /\ files' = files \cup {vlc[k].sout}
    /\ UNCHANGED <<config, clock, pc, schedules, records, handling_records, now,
                   rs, hrs, vlc, history, times, named>>

\* __main__: main has returned and sleep(3600*14) is called; the module has
\* no name sleep (only time is imported), so a NameError ends the process
EntrySleepRaises ==
    /\ pc = "done"
    /\ pc' = "exited"
    /\ UNCHANGED <<config, clock, schedules, records, handling_records, now, rs,
                   hrs, vlc, history, times, disk>>

Next ==
    \/ ImportSchedules
    \/ TemplateSchedules
    \/ TemplateHangs
    \/ InitializeRecords
    \/ EnterLoop
    \/ EnterIteration
    \/ Return
    \/ StartSkip
    \/ StartRecord
    \/ StartRaisesBeforeRecord
    \/ StartRecordRaises
    \/ EndStarts
    \/ StopSkip
    \/ StopRecord
    \/ StopRaisesBeforeRecord
    \/ StopRecordRaises
    \/ EndStops
    \/ Sleep
    \/ EngineOpensFile
    \/ EntrySleepRaises

Spec == Init /\ [][Next]_vars

(***************************************************************************)
(* main's startup alone, up to the initialized records, on a wider set of  *)
(* configurations.                                                         *)
(***************************************************************************)
InitStartup ==
    /\ args_template \in BOOLEAN
    /\ stream_list \in StreamLists
    /\ IF args_template
       THEN /\ schedule_dict = <<>>
            /\ \/ schedule_template \in StartupTemplates /\ clock \in StartupClocks
               \/ schedule_template = Scenario.template /\ clock = Scenario.clock
       ELSE /\ schedule_dict \in SeqsUpTo(Pairs, MaxWindows)
            /\ schedule_template = NoTemplate
            /\ clock \in StartupClocks
    /\ pc = "start"
    /\ schedules = <<>>
    /\ records = <<>>
    /\ handling_records = <<>>
    /\ now = 0
    /\ rs = <<>>
    /\ hrs = <<>>
    /\ vlc = <<>>
    /\ start_calls = <<>>
    /\ stop_calls = <<>>
    /\ created = {}
    /\ finished = {}
    /\ failed = {}
    /\ started_at = <<>>
    /\ stopped_at = <<>>
    /\ first_now = -1
    /\ files = {}
    /\ named = <<>>

NextStartup ==
    \/ ImportSchedules
    \/ TemplateSchedules
    \/ TemplateHangs
    \/ InitializeRecords

StartupSpec == InitStartup /\ [][NextStartup]_vars

(***************************************************************************)
(* The claims.                                                             *)
(***************************************************************************)
Pending == KeySet(records)
Recording == KeySet(handling_records)

\* The number of handles start_record has returned for record k.
Handles(k) == IF vlc[k] = NoHandle THEN 0 ELSE 1

\* C1: at every iteration boundary of the poll loop (the while test, the
\* sleep, the return) every id made by initialize_records is in exactly one
\* of records, handling_records and the finished ones; no id is in both
\* collections, none is twice in one, and none is lost.
C1_Partition ==
    pc \in {"loop", "sleep", "done"} =>
        /\ Pending \cap Recording = {}
        /\ Pending \cap finished = {}
        /\ Recording \cap finished = {}
        /\ Pending \cup Recording \cup finished = created
        /\ Cardinality(Pending) = Len(records)
        /\ Cardinality(Recording) = Len(handling_records)

\* C1's case: at the while test one record has gone all the way to finished
\* while another is still pending.
C1_Witness ==
    /\ pc = "loop"
    /\ finished # {}
    /\ records # <<>>

\* C2: every record whose window end the snapshot has passed is finished when
\* the iteration ends, whether it was ever started or not (and so the loop
\* ends once the clock has passed every window).
C2_EveryJobFinishes ==
    pc = "sleep" =>
        /\ \A i \in 1..Len(records) : ~(now > records[i]["end"])
        /\ \A i \in 1..Len(handling_records) : ~(now > handling_records[i]["end"])

\* C3: a pending record first seen by a snapshot at or after the end of its
\* window is dropped from records in that iteration, and start_record is not
\* called for it.
C3_MissedJobDropped ==
    pc = "sleep" =>
        \A i \in 1..Len(records) :
            ~(/\ records[i]["start"] < records[i]["end"]
              /\ now >= records[i]["end"]
              /\ start_calls[records[i].id] = 0)

\* C4: a recording record does not survive an iteration whose snapshot is
\* later than the end of its window: when the iteration ends it is out of
\* handling_records and stop_record has been called for it.
C4_StoppedOnceEnded ==
    pc = "sleep" =>
        /\ \A i \in 1..Len(handling_records) : ~(now > handling_records[i]["end"])
        /\ \A k \in created :
              (Handles(k) = 1 /\ k \notin Recording) =>
                  (stop_calls[k] >= 1 /\ vlc[k].player = "released")

\* C4's case: an iteration has ended in which a record was stopped while
\* another, started earlier, goes on recording.
C4_Witness ==
    /\ pc = "sleep"
    /\ finished # {}
    /\ \E k \in finished : stop_calls[k] = 1 /\ vlc[k].player = "released"
    /\ handling_records # <<>>

\* C5: start_record is called at most once per record; stop_record is called
\* only for a record that start_record returned a handle for, never while
\* the record has not been started, never twice, and exactly once for every
\* handle that has left handling_records (all of them when main returns).
C5_StartStopPaired ==
    \A k \in created :
        /\ start_calls[k] <= 1
        /\ stop_calls[k] <= Handles(k)
        /\ Handles(k) <= start_calls[k]
        /\ k \in Recording => Handles(k) = 1
        /\ (k \in Recording /\ pc # "crashed") => stop_calls[k] = 0
        /\ (Handles(k) = 1 /\ k \notin Recording) => stop_calls[k] = 1
        /\ pc = "done" => stop_calls[k] = Handles(k)

\* C5's case: main has returned after a record was started and stopped.
C5_Witness ==
    /\ pc = "done"
    /\ \E k \in created : start_calls[k] = 1 /\ stop_calls[k] = 1

\* C6: a start that fails does not end the loop: after it the loop is still
\* running (or has returned because nothing is left).
C6_ErrorsIsolated ==
    \A k \in failed : pc \in {"loop", "starting", "stopping", "sleep", "done"}

\* C7: initialize_records returns exactly |stream_list| * |schedules|
\* records, none of them with a handle, whose ids are 0..N-1 without gap or
\* duplicate (none when either list is empty).
C7_IdsContiguous ==
    pc = "initialized" =>
        LET N == Len(stream_list) * Len(schedules)
        IN  /\ Len(records) = N
            /\ KeySet(records) = 0..(N - 1)
            /\ Cardinality(KeySet(records)) = N
            /\ \A i \in 1..N :
                  DOMAIN records[i] = {"id", "uri", "name", "start", "end"}

\* C7's case: two streams and three windows give six records.
C7_Witness ==
    /\ pc = "initialized"
    /\ Len(stream_list) = 2
    /\ Len(schedules) = 3
    /\ KeySet(records) = 0..5

\* C8: ids are given window by window: with S streams, record k has window
\* number k div S and stream number k mod S.
C8_WindowMajor ==
    pc = "initialized" =>
        \A i \in 1..Len(records) :
            LET k == records[i].id
                S == Len(stream_list)
                w == schedules[(k \div S) + 1]
                st == stream_list[(k % S) + 1]
            IN  /\ records[i]["start"] = w.start
                /\ records[i]["end"] = w.end
                /\ records[i].uri = st.uri
                /\ records[i].name = st.name

\* C8's case: two streams and three different windows: ids 0,1 have the
\* first window, 2,3 the second, 4,5 the third.
C8_Witness ==
    /\ pc = "initialized"
    /\ Len(stream_list) = 2
    /\ Len(schedules) = 3
    /\ schedules[1] # schedules[2]
    /\ schedules[2] # schedules[3]
    /\ Get(records, 2)["start"] = schedules[2].start
    /\ Get(records, 3)["start"] = schedules[2].start
    /\ Get(records, 3).uri = stream_list[2].uri

\* The template is one C9 speaks of.
ValidTemplate ==
    /\ args_template
    /\ schedule_template.duration > 0
    /\ schedule_template.break >= 0
    /\ strptime(schedule_template.start) < strptime(schedule_template.end)

\* C9: for a template with duration > 0, break >= 0 and start < end the
\* windows do not overlap, their starts grow strictly, each is exactly
\* duration long, consecutive starts are duration + break apart, and every
\* start is before the template's end.
C9_TemplateWindows ==
    (pc = "scheduled" /\ ValidTemplate) =>
        LET slot == 60 * schedule_template.duration
            gap == 60 * schedule_template.break
        IN  /\ \A i \in 1..Len(schedules) :
                  /\ schedules[i].end - schedules[i].start = slot
                  /\ schedules[i].start < strptime(schedule_template.end)
            /\ \A i \in 1..(Len(schedules) - 1) :
                  /\ schedules[i].start < schedules[i + 1].start
                  /\ schedules[i].end <= schedules[i + 1].start
                  /\ schedules[i + 1].start - schedules[i].start = slot + gap

\* C9's case: a valid template with a break that gives three windows or more.
C9_Witness ==
    /\ pc = "scheduled"
    /\ ValidTemplate
    /\ schedule_template.break > 0
    /\ Len(schedules) >= 3

\* C10: the first window starts at now when the template's start is before
\* now and at the template's start otherwise; no window starts before now.
\* The example (00:00:00 to 23:59:59, 60 minutes, no break, read at
\* 10:00:00) gives [10:00:00, 11:00:00) and then one window every 60 minutes
\* while the start is before 23:59:59.
C10_Clipping ==
    (pc = "scheduled" /\ args_template) =>
        /\ schedules # <<>> =>
              schedules[1].start =
                  IF strptime(schedule_template.start) < clock
                  THEN clock
                  ELSE strptime(schedule_template.start)
        /\ \A i \in 1..Len(schedules) : schedules[i].start >= clock
        /\ (schedule_template = Scenario.template /\ clock = Scenario.clock) =>
              /\ schedules # <<>>
              /\ \A i \in 1..Len(schedules) :
                    schedules[i] =
                        Schedule(36000 + 3600 * (i - 1), 36000 + 3600 * i)
              /\ 36000 + 3600 * (Len(schedules) - 1) < 86399
              /\ 36000 + 3600 * Len(schedules) >= 86399

\* C10's case: the example's template read at 10:00:00, whose start is
\* before now.
C10_Witness ==
    /\ pc = "scheduled"
    /\ schedule_template = Scenario.template
    /\ clock = Scenario.clock
    /\ strptime(schedule_template.start) < clock
    /\ schedules[1] = Schedule(36000, 39600)

(***************************************************************************)
(* generate_outfile on its own: calls for a few stream names in a          *)
(* directory that holds any of the names the calls can collide with, while *)
(* the engine makes the files of earlier calls and the clock goes on.      *)
(***************************************************************************)
NamerNames == {<<"c">>, <<"c", " ", "0">>, <<"c", "_", "0">>}

NamerFiles ==
    {fn_str(<<"c">>, 0) \o ext,
     Numbered(fn_str(<<"c">>, 0), 0),
     Numbered(fn_str(<<"c">>, 0), 1),
     fn_str(<<"c">>, 0),
     log_file}

InitNamer ==
    /\ args_template = FALSE
    /\ stream_list = <<>>
    /\ schedule_dict = <<>>
    /\ schedule_template = NoTemplate
    /\ clock = 0
    /\ pc = "namer"
    /\ schedules = <<>>
    /\ records = <<>>
    /\ handling_records = <<>>
    /\ now = 0
    /\ rs = <<>>
    /\ hrs = <<>>
    /\ vlc = <<>>
    /\ start_calls = <<>>
    /\ stop_calls = <<>>
    /\ created = {}
    /\ finished = {}
    /\ failed = {}
    /\ started_at = <<>>
    /\ stopped_at = <<>>
    /\ first_now = -1
    /\ files \in SUBSET NamerFiles
    /\ named = <<>>

\* outfile = generate_outfile(name, save_path)
NamerCall ==
    /\ pc = "namer"
    /\ Len(named) < MaxCalls
    /\ \E name \in NamerNames :
          named' = Append(named,
                          [name |-> name, t |-> clock, listing |-> files,
                           path |-> generate_outfile(name, files, clock)])
    /\ UNCHANGED <<config, clock, pc, schedules, records, handling_records, now,
                   rs, hrs, vlc, history, times, files>>

\* the engine makes the file an earlier call named
NamerWrite ==
    /\ pc = "namer"
    /\ \E i \in 1..Len(named) :
          /\ named[i].path \notin files
          /\ files' = files \cup {named[i].path}
    /\ UNCHANGED <<config, clock, pc, schedules, records, handling_records, now,
                   rs, hrs, vlc, history, times, named>>

\* a second passes
NamerTick ==
    /\ pc = "namer"
    /\ clock < MaxNamerClock
    /\ clock' = clock + 1
    /\ UNCHANGED <<config, pc, schedules, records, handling_records, now, rs,
                   hrs, vlc, history, times, disk>>

NextNamer ==
    \/ NamerCall
    \/ NamerWrite
    \/ NamerTick

NamerSpec == InitNamer /\ [][NextNamer]_vars

\* C11: a template whose duration is zero or negative is refused before any
\* record is made: create_schedules_from_template neither runs for ever nor
\* returns windows, so main does not get past its start with such a template.
C11_NonPositiveDurationRefused ==
    (args_template /\ schedule_template.duration <= 0) =>
        /\ pc # "hang"
        /\ pc \notin {"scheduled", "initialized"}

\* The records as initialize_records made them.
Jobs == initialize_records(stream_list, schedules)

\* C12: two calls of generate_outfile for the same stream name in the same
\* second return different paths, the second one numbered, whether or not
\* the first file has been made in between; so two records of one stream
\* started in one iteration are told to write different files.
C12_SameSecondDistinct ==
    /\ \A i, j \in 1..Len(named) :
          (i < j /\ named[i].name = named[j].name /\ named[i].t = named[j].t) =>
              /\ named[i].path # named[j].path
              /\ named[j].path # fn_str(named[j].name, named[j].t) \o ext
    /\ \A k1, k2 \in created :
          (/\ k1 # k2
           /\ Handles(k1) = 1
           /\ Handles(k2) = 1
           /\ Get(Jobs, k1).name = Get(Jobs, k2).name
           /\ started_at[k1] = started_at[k2]) =>
              vlc[k1].sout # vlc[k2].sout

\* C13: the name generate_outfile returns is not in the directory it listed:
\* it is the base name when that is free, and otherwise the numbered name
\* with the first of 0, 1, ... that is free.
C13_FreshName ==
    \A i \in 1..Len(named) :
        LET c == named[i]
            fn == fn_str(c.name, c.t)
        IN  /\ c.path \notin c.listing
            /\ IF fn \o ext \notin c.listing
               THEN c.path = fn \o ext
               ELSE \E n \in 0..Cardinality(c.listing) :
                       /\ c.path = Numbered(fn, n)
                       /\ \A m \in 0..(n - 1) : Numbered(fn, m) \in c.listing

\* C13's case: the base name and the name numbered 0 are both there and the
\* call returns the name numbered 1.
C13_Witness ==
    \E i \in 1..Len(named) :
        LET fn == fn_str(named[i].name, named[i].t)
        IN  /\ fn \o ext \in named[i].listing
            /\ Numbered(fn, 0) \in named[i].listing
            /\ named[i].path = Numbered(fn, 1)

\* The iteration whose snapshot is now has run to its end.
IterationOver == pc = "sleep"

\* C14, as first stated: an iteration starts a pending record if and only
\* if window.start <= now < window.end, so none with its start at the
\* snapshot is left pending.
C14_StartedFromWindowStart ==
    /\ IterationOver =>
          \A i \in 1..Len(records) :
              ~(records[i]["start"] <= now /\ now < records[i]["end"])
    /\ LET jobs == Jobs
       IN  \A k \in created :
               LET job == Get(jobs, k)
               IN  started_at[k] # -1 =>
                       (job["start"] <= started_at[k] /\ started_at[k] < job["end"])

\* C14, amended: a record is started only at a snapshot strictly inside its
\* window, start < now < end, and is then in handling_records with its
\* handle; an iteration that has run to its end has left no pending record
\* with start < now < end, and has left pending the ones with now = start.
C14_StartedStrictlyInside ==
    /\ IterationOver =>
          \A i \in 1..Len(records) :
              /\ ~(records[i]["start"] < now /\ now < records[i]["end"])
              /\ start_calls[records[i].id] = 0
    /\ LET jobs == Jobs
       IN  \A k \in created :
               LET job == Get(jobs, k)
               IN  started_at[k] # -1 =>
                       /\ job["start"] < started_at[k]
                       /\ started_at[k] < job["end"]
                       /\ Handles(k) = 1
                       /\ k \in Recording => Get(handling_records, k).player = k

\* C14's case: an iteration has ended that started one record and left
\* pending another whose window starts at the snapshot.
C14_Witness ==
    /\ IterationOver
    /\ \E k \in created : started_at[k] = now
    /\ \E i \in 1..Len(records) :
          records[i]["start"] = now /\ now < records[i]["end"]

\* C15, as first stated: when an iteration ends no record is left in
\* handling_records whose window.end is <= the snapshot.
C15_NoneLeftAtWindowEnd ==
    IterationOver =>
        \A i \in 1..Len(handling_records) : ~(handling_records[i]["end"] <= now)

\* C15, amended: when an iteration ends every record left in
\* handling_records has start < now <= end: one whose window ends at the
\* snapshot is still there, and a record is stopped only at a snapshot later
\* than its window.end.
C15_RecordingUntilPastEnd ==
    /\ IterationOver =>
          \A i \in 1..Len(handling_records) :
              /\ handling_records[i]["start"] < now
              /\ now <= handling_records[i]["end"]
    /\ LET jobs == Jobs
       IN  \A k \in created :
               stopped_at[k] # -1 => stopped_at[k] > Get(jobs, k)["end"]

\* C15's case: an iteration has ended whose snapshot is the window.end of a
\* record that is still recording.
C15_Witness ==
    /\ IterationOver
    /\ \E i \in 1..Len(handling_records) : handling_records[i]["end"] = now

\* C16: stop_record stops the player first and then releases instance,
\* player and media: after it nothing start_record made is still held.
C16_AllReleased ==
    \A k \in created :
        stop_calls[k] >= 1 =>
            /\ vlc[k].calls # <<>>
            /\ vlc[k].calls[1] = <<"player", "stop">>
            /\ vlc[k].instance = "released"
            /\ vlc[k].player = "released"
            /\ vlc[k].media = "released"

\* C17: every window handed to initialize_records, and so every record's
\* window, has start < end, whichever way the schedules were built.
C17_WindowsOrdered ==
    /\ pc # "start" =>
          \A i \in 1..Len(schedules) : schedules[i].start < schedules[i].end
    /\ \A i \in 1..Len(records) : records[i]["start"] < records[i]["end"]

\* C18: when main has returned the process waits and runs main again: it
\* does not end.
C18_AnotherRunFollows == pc # "exited"

\* C19: no record is started and stopped by the same iteration: a record
\* started at the iteration's snapshot is in handling_records, not stopped,
\* for the rest of the iteration, and a stopped record was started at an
\* earlier snapshot, at least one sleep before.
C19_NotStartedAndStoppedAtOnce ==
    \A k \in created :
        /\ (pc \in {"starting", "stopping", "sleep"} /\ started_at[k] = now) =>
              (k \in Recording /\ stop_calls[k] = 0)
        /\ stopped_at[k] # -1 =>
              /\ started_at[k] # -1
              /\ started_at[k] + SleepTime <= stopped_at[k]

\* C19's case: a record has been started and, at a later snapshot, stopped.
C19_Witness ==
    \E k \in created :
        /\ stopped_at[k] # -1
        /\ started_at[k] # -1
        /\ stop_calls[k] = 1

\* The longest time between two snapshots that follow each other.
MaxGap == SleepTime + HalfPeriod

\* C20: a record whose window starts after the first snapshot and is longer
\* than the time between two snapshots is not missed: once a snapshot later
\* than its window.start has been taken and worked through, the record has
\* been started, once and inside its window, and once a snapshot later than
\* its window.end has, it has been stopped.
C20_NoJobMissed ==
    LET jobs == Jobs
        over == pc \in {"sleep", "loop", "done", "crashed", "exited"}
    IN  \A k \in created :
            LET job == Get(jobs, k)
            IN  (/\ first_now # -1
                 /\ job["start"] > first_now
                 /\ job["end"] - job["start"] > MaxGap) =>
                    /\ start_calls[k] <= 1
                    /\ started_at[k] # -1 =>
                          (job["start"] < started_at[k] /\ started_at[k] < job["end"])
                    /\ (over /\ now > job["start"]) => Handles(k) = 1
                    /\ (over /\ now > job["end"]) =>
                          (stop_calls[k] = 1 /\ stopped_at[k] > job["end"])

====
